---- MODULE Spec2Model ----
(***************************************************************************)
(* Model of astrobin_headers_multithread.py: the WBPP log scan             *)
(* (process_log), the per-file header classification                      *)
(* (process_single_file, extract_val, FILTER_MAP) and the aggregation      *)
(* into astrobin_import.csv.                                               *)
(*                                                                         *)
(* Python strings are sequences of one-character strings, so that          *)
(* upper(), strip(), split(), float(), the "%.2f" formatting, the regular  *)
(* expression of the log scan and the ordering of sorted() are computed    *)
(* and not assumed.  Python's None and the int/str distinction are         *)
(* carried by tags.                                                        *)
(***************************************************************************)
EXTENDS Integers, Sequences, FiniteSets, TLC

VARIABLES
    log_status,      \* "missing" | "unreadable" | "ok": what os.path.exists/open find at log_path
    entries,         \* the registration entries WBPP wrote to the log, [flag, gap, path] each
    content,         \* the text of the log, a sequence of lexical units
    fs,              \* the file system: path -> file (existence, I/O behaviour, header matches)
    pc,              \* position of process_log: "start" | "scanning" | "done" | "crashed"
    valid_paths,     \* list(set(matches))
    futures,         \* one per submitted task: "pending" | "finished" | "collected"
    returned,        \* what each task's process_single_file call ended with
    grouped_data,    \* the defaultdict(int) in insertion order: sequence of [key, n]
    count_processed, \* line 230
    i,               \* number of futures as_completed has yielded so far
    csv,             \* astrobin_import.csv: [opens, header, rows, complete, error]
    notes            \* the calls of show_message, in order: [title, message, is_error]

vars == <<log_status, entries, content, fs, pc, valid_paths, futures, returned,
          grouped_data, count_processed, i, csv, notes>>

(***************************************************************************)
(* Strings                                                                 *)
(***************************************************************************)

\* The characters the inputs use, in ascending code point order.
Chars ==
    << " ", "\"", "'", "-", ".", "0", "1", "2", "3", "4", "5", "6", "7", "8", "9",
       "A", "B", "C", "D", "E", "F", "G", "H", "I", "J", "K", "L", "M", "N", "O", "P",
       "Q", "R", "S", "T", "U", "V", "W", "X", "Y", "Z",
       "a", "b", "c", "d", "e", "f", "g", "h", "i", "j", "k", "l", "m", "n", "o", "p",
       "q", "r", "s", "t", "u", "v", "w", "x", "y", "z" >>

\* the position of each character in that order
OrdTable == [c \in { Chars[n] : n \in 1..Len(Chars) } |-> CHOOSE n \in 1..Len(Chars) : Chars[n] = c]

Ord(c) == OrdTable[c]

LowerCase == { Chars[n] : n \in 42..67 }

\* str.upper() on one character
UpperChar(c) == IF c \in LowerCase THEN Chars[Ord(c) - 26] ELSE c

\* str.upper()
Upper(s) == [n \in 1..Len(s) |-> UpperChar(s[n])]

\* `sub in s`
Contains(s, sub) ==
    \E n \in 0..(Len(s) - Len(sub)) : SubSeq(s, n + 1, n + Len(sub)) = sub

\* s < t for two str: code point order, a proper prefix first
RECURSIVE StrLess(_, _)
StrLess(s, t) ==
    IF t = <<>> THEN FALSE
    ELSE IF s = <<>> THEN TRUE
    ELSE IF s[1] # t[1] THEN Ord(s[1]) < Ord(t[1])
    ELSE StrLess(Tail(s), Tail(t))

RECURSIVE LStrip(_, _)
LStrip(s, cs) == IF s # <<>> /\ s[1] \in cs THEN LStrip(Tail(s), cs) ELSE s

RECURSIVE RStrip(_, _)
RStrip(s, cs) ==
    IF s # <<>> /\ s[Len(s)] \in cs THEN RStrip(SubSeq(s, 1, Len(s) - 1), cs) ELSE s

\* str.strip(chars)
Strip(s, cs) == RStrip(LStrip(s, cs), cs)

\* s.split(sep)[0]: the part before the first sep, all of s when there is none
RECURSIVE SplitFirst(_, _)
SplitFirst(s, sep) ==
    IF s = <<>> \/ s[1] = sep THEN <<>> ELSE <<s[1]>> \o SplitFirst(Tail(s), sep)

Digits == {"0", "1", "2", "3", "4", "5", "6", "7", "8", "9"}

DigitVal(c) == Ord(c) - Ord("0")

DigitChar(d) == Chars[Ord("0") + d]

RECURSIVE DigitsVal(_)
DigitsVal(s) == IF s = <<>> THEN 0 ELSE 10 * DigitsVal(SubSeq(s, 1, Len(s) - 1)) + DigitVal(s[Len(s)])

\* str(n) for n >= 0
RECURSIVE NatStr(_)
NatStr(n) == IF n < 10 THEN <<DigitChar(n)>> ELSE NatStr(n \div 10) \o <<DigitChar(n % 10)>>

(***************************************************************************)
(* float(), "%.2f" and str(int())                                          *)
(***************************************************************************)

\* float(s): surrounding blanks dropped, an optional "-", then digits with at most
\* one "." and at least one digit; anything else raises ValueError (ok = FALSE).
\* The value is kept as a sign and a number of hundredths (the inputs drawn below
\* carry at most two decimals, and no exponent, "inf" or "nan").
ParseFloat(s) ==
    LET t    == Strip(s, {" "})
        neg  == t # <<>> /\ t[1] = "-"
        body == IF neg THEN Tail(t) ELSE t
        ip   == SplitFirst(body, ".")
        dot  == Len(ip) < Len(body)
        fr   == IF dot THEN SubSeq(body, Len(ip) + 2, Len(body)) ELSE <<>>
        ok   == /\ \A n \in 1..Len(ip) : ip[n] \in Digits
                /\ \A n \in 1..Len(fr) : fr[n] \in Digits
                /\ Len(ip) + Len(fr) >= 1
        fr2  == SubSeq(fr \o <<"0", "0">>, 1, 2)
    IN  IF ok THEN [ok |-> TRUE, neg |-> neg, hund |-> 100 * DigitsVal(ip) + DigitsVal(fr2)]
        ELSE [ok |-> FALSE, neg |-> FALSE, hund |-> 0]

\* f"{x:.2f}"
FormatFixed2(x) ==
    (IF x.neg THEN <<"-">> ELSE <<>>)
        \o NatStr(x.hund \div 100) \o <<".">>
        \o <<DigitChar((x.hund % 100) \div 10), DigitChar(x.hund % 10)>>

\* str(int(x)): truncation towards zero
IntStr(x) ==
    (IF x.neg /\ x.hund \div 100 > 0 THEN <<"-">> ELSE <<>>) \o NatStr(x.hund \div 100)

(***************************************************************************)
(* Regular expression matches and extract_val                              *)
(***************************************************************************)

\* A capture group: Python's None, or the captured text.
NoGroup == [some |-> FALSE, s |-> <<>>]

Group(s) == [some |-> TRUE, s |-> s]

\* pattern.search(header_text) found nothing: the field is absent from the bytes read
NoMatch == [found |-> FALSE, groups |-> <<>>]

\* PATTERNS['xisf']: one group, value="([^"]+)"
XisfMatch(s) == [found |-> TRUE, groups |-> <<Group(s)>>]

\* PATTERNS['fits']: KEY = 'text', first group
FitsQuoted(s) == [found |-> TRUE, groups |-> <<Group(s), NoGroup>>]

\* PATTERNS['fits']: KEY = number, second group ([0-9\.-]+)
FitsBare(s) == [found |-> TRUE, groups |-> <<NoGroup, Group(s)>>]

\* A value of extract_val: None, or a str.
None == [none |-> TRUE, s |-> <<>>]

Str(s) == [none |-> FALSE, s |-> s]

\* Python truthiness of None | str
Truthy(v) == ~v.none /\ v.s # <<>>

\* next((g for g in match.groups() if g is not None), None)
RECURSIVE FirstGroup(_)
FirstGroup(gs) ==
    IF gs = <<>> THEN None
    ELSE IF gs[1].some THEN Str(gs[1].s)
    ELSE FirstGroup(Tail(gs))

extract_val(match) ==
    IF ~match.found THEN None
    ELSE LET val == FirstGroup(match.groups)
         IN  IF Truthy(val) THEN Str(Strip(Strip(val.s, {"'"}), {"\""})) ELSE None

(***************************************************************************)
(* FILTER_MAP and process_single_file                                      *)
(***************************************************************************)

FILTER_MAP ==
    (<<"R">> :> 28943) @@ (<<"L">> :> 25576) @@ (<<"G">> :> 28944) @@ (<<"B">> :> 28945)
        @@ (<<"H">> :> 4410) @@ (<<"O">> :> 4415) @@ (<<"S">> :> 4420)

\* A filter id is an int of FILTER_MAP or the raw str; the tag comes first so that
\* the two kinds are never compared field by field.
IntId(n) == <<"int", n>>

StrId(s) == <<"str">> \o s

\* the lookup without the first-character fallback
MapFilterNoFallback(raw_filter) ==
    IF raw_filter \in DOMAIN FILTER_MAP THEN IntId(FILTER_MAP[raw_filter]) ELSE StrId(raw_filter)

\* FILTER_MAP.get(raw_filter, FILTER_MAP.get(raw_filter[0], raw_filter))
MapFilter(raw_filter) ==
    IF raw_filter \in DOMAIN FILTER_MAP THEN IntId(FILTER_MAP[raw_filter])
    ELSE IF <<raw_filter[1]>> \in DOMAIN FILTER_MAP THEN IntId(FILTER_MAP[<<raw_filter[1]>>])
    ELSE StrId(raw_filter)

LIGHT == <<"L", "I", "G", "H", "T">>

Unknown == <<"U", "n", "k", "n", "o", "w", "n">>

\* How a call of process_single_file ends: it returns None (reject), returns the
\* key tuple, or lets an exception escape into the future.
Reject == [rec |-> FALSE, key |-> <<>>, exc |-> FALSE]

Record(k) == [rec |-> TRUE, key |-> k, exc |-> FALSE]

Escapes == [rec |-> FALSE, key |-> <<>>, exc |-> TRUE]

\* the type test without the LIGHT check
IsLightAnyType(val) == Truthy(val)

\* line 169
IsLight(val) == Truthy(val) /\ Contains(Upper(val.s), LIGHT)

\* lines 177-180 and 187-190: float(val) raises ValueError on an unparseable value
Raises(val) == Truthy(val) /\ ~ParseFloat(val.s).ok

exposure_of(val) == IF Truthy(val) THEN FormatFixed2(ParseFloat(val.s)) ELSE <<"0">>

gain_of(val) == IF Truthy(val) THEN IntStr(ParseFloat(val.s)) ELSE <<"0">>

date_of(val) == IF Truthy(val) THEN SplitFirst(val.s, "T") ELSE Unknown

binning_of(val) == IF Truthy(val) THEN val.s ELSE <<"1">>

raw_filter_of(val) == IF Truthy(val) THEN val.s ELSE Unknown

\* process_single_file without its try/except: the exceptions escape
process_single_file_unguarded(f) ==
    IF ~f.exists THEN Reject
    ELSE IF f.io # "ok" THEN Escapes
    ELSE IF ~IsLight(extract_val(f.hdr.type)) THEN Reject
    ELSE IF Raises(extract_val(f.hdr.exposure)) THEN Escapes
    ELSE IF Raises(extract_val(f.hdr.gain)) THEN Escapes
    ELSE Record(<< date_of(extract_val(f.hdr.date)),
                   MapFilter(raw_filter_of(extract_val(f.hdr.filter))),
                   exposure_of(extract_val(f.hdr.exposure)),
                   binning_of(extract_val(f.hdr.binning)),
                   gain_of(extract_val(f.hdr.gain)) >>)

\* f is the file at file_path: whether it exists, how open/read behave, and what
\* the six patterns of the selected set (xisf or fits) find in the bytes read.
process_single_file(f) ==
    IF ~f.exists THEN Reject                                    \* 152-153
    ELSE IF f.io # "ok" THEN Reject                             \* 162-163, 202-203
    ELSE IF ~IsLight(extract_val(f.hdr.type)) THEN Reject       \* 167-170
    ELSE IF Raises(extract_val(f.hdr.exposure)) THEN Reject     \* 180, 202-203
    ELSE IF Raises(extract_val(f.hdr.gain)) THEN Reject         \* 190, 202-203
    ELSE Record(<< date_of(extract_val(f.hdr.date)),
                   MapFilter(raw_filter_of(extract_val(f.hdr.filter))),
                   exposure_of(extract_val(f.hdr.exposure)),
                   binning_of(extract_val(f.hdr.binning)),
                   gain_of(extract_val(f.hdr.gain)) >>)

(***************************************************************************)
(* The log scan: re.findall(r'\[true,\s*\"(.*?)\"', content)               *)
(***************************************************************************)

TrueMarker == <<"[", "t", "r", "u", "e", ",">>

\* \s
WhiteSpace == {" ", "\n"}

\* index of the first character at or after n that is not whitespace
RECURSIVE SkipSpace(_, _)
SkipSpace(s, n) == IF n <= Len(s) /\ s[n] \in WhiteSpace THEN SkipSpace(s, n + 1) ELSE n

\* (.*?)\" from n: the index of the first quote at or after n, 0 when a newline
\* (which . does not match) or the end of the text comes first
RECURSIVE ClosingQuote(_, _)
ClosingQuote(s, n) ==
    IF n > Len(s) \/ s[n] = "\n" THEN 0
    ELSE IF s[n] = "\"" THEN n
    ELSE ClosingQuote(s, n + 1)

\* the match of the pattern that starts at n, if any: its capture and its last index
MatchAt(s, n) ==
    IF n + 5 > Len(s) \/ SubSeq(s, n, n + 5) # TrueMarker
    THEN [ok |-> FALSE, cap |-> <<>>, last |-> 0]
    ELSE LET q == SkipSpace(s, n + 6)
         IN  IF q > Len(s) \/ s[q] # "\""
             THEN [ok |-> FALSE, cap |-> <<>>, last |-> 0]
             ELSE LET c == ClosingQuote(s, q + 1)
                  IN  IF c = 0 THEN [ok |-> FALSE, cap |-> <<>>, last |-> 0]
                      ELSE [ok |-> TRUE, cap |-> SubSeq(s, q + 1, c - 1), last |-> c]

\* the captures of the non-overlapping matches, left to right, from n on
RECURSIVE FindAllFrom(_, _)
FindAllFrom(s, n) ==
    IF n > Len(s) THEN <<>>
    ELSE LET m == MatchAt(s, n)
         IN  IF m.ok THEN <<m.cap>> \o FindAllFrom(s, m.last + 1)
             ELSE FindAllFrom(s, n + 1)

FindAll(s) == FindAllFrom(s, 1)

Range(q) == { q[n] : n \in 1..Len(q) }

\* a list of the elements of S, each once (the order of list(set(..)) is not
\* observable below: every submitted task may run and complete in any order)
RECURSIVE ListOfSet(_)
ListOfSet(S) ==
    IF S = {} THEN <<>> ELSE LET x == CHOOSE y \in S : TRUE IN <<x>> \o ListOfSet(S \ {x})

\* the matches without the set()
AllMatches(matches) == matches

\* line 218: valid_paths = list(set(matches))
DistinctPaths(matches) == ListOfSet(Range(matches))

(***************************************************************************)
(* grouped_data and sorted()                                               *)
(***************************************************************************)

\* an unsynchronized read-modify-write that loses the earlier count
RECURSIVE IncrementLost(_, _)
IncrementLost(d, key) ==
    IF d = <<>> THEN << [key |-> key, n |-> 1] >>
    ELSE IF d[1].key = key THEN << [key |-> key, n |-> 1] >> \o Tail(d)
    ELSE << d[1] >> \o IncrementLost(Tail(d), key)

\* grouped_data[key] += 1 on a defaultdict(int) kept in insertion order
RECURSIVE Increment(_, _)
Increment(d, key) ==
    IF d = <<>> THEN << [key |-> key, n |-> 1] >>
    ELSE IF d[1].key = key THEN << [key |-> key, n |-> d[1].n + 1] >> \o Tail(d)
    ELSE << d[1] >> \o Increment(Tail(d), key)

\* grouped_data.keys()
Keys(d) == [n \in 1..Len(d) |-> d[n].key]

\* index of the first position where the tuples a and b differ, 0 when equal
FirstDiff(a, b) ==
    IF a = b THEN 0 ELSE CHOOSE n \in 1..Len(a) : a[n] # b[n] /\ \A m \in 1..(n - 1) : a[m] = b[m]

\* position 2 holds the filter id, an int or a str; the others hold str
IsIntId(x) == x[1] = "int"

\* a < b raises TypeError: the first differing elements are an int and a str
Uncomparable(a, b) ==
    LET n == FirstDiff(a, b) IN n = 2 /\ IsIntId(a[2]) # IsIntId(b[2])

\* a < b for two key tuples that can be compared
KeyLess(a, b) ==
    LET n == FirstDiff(a, b)
    IN  IF n = 0 THEN FALSE
        ELSE IF n = 2
             THEN IF IsIntId(a[2]) /\ IsIntId(b[2]) THEN a[2][2] < b[2][2]
                  ELSE IF ~IsIntId(a[2]) /\ ~IsIntId(b[2]) THEN StrLess(Tail(a[2]), Tail(b[2]))
                  ELSE FALSE
        ELSE StrLess(a[n], b[n])

\* sorted() raises TypeError exactly when some int filter id has to be ordered
\* against a str one, that is when two keys agree on the date and differ in kind
SortRaises(ks) == \E m, n \in 1..Len(ks) : Uncomparable(ks[m], ks[n])

RECURSIVE InsertSorted(_, _)
InsertSorted(q, k) ==
    IF q = <<>> THEN <<k>>
    ELSE IF KeyLess(k, q[1]) THEN <<k>> \o q
    ELSE <<q[1]>> \o InsertSorted(Tail(q), k)

RECURSIVE SortFrom(_, _)
SortFrom(ks, acc) == IF ks = <<>> THEN acc ELSE SortFrom(Tail(ks), InsertSorted(acc, ks[1]))

\* the keys as the dictionary yields them
Unsorted(ks) == ks

\* sorted(grouped_data.keys()), when it does not raise
Sorted(ks) == SortFrom(ks, <<>>)

\* grouped_data[key]
CountOf(d, key) == LET n == CHOOSE m \in 1..Len(d) : d[m].key = key IN d[n].n

bortle_val == 4

\* lines 261-270: the row written for key
Row(d, key) ==
    [date |-> key[1], filter |-> key[2], number |-> CountOf(d, key), duration |-> key[3],
     binning |-> key[4], gain |-> key[5], bortle |-> bortle_val]

\* lines 260-270
Rows(d) == LET ks == Sorted(Keys(d)) IN [n \in 1..Len(ks) |-> Row(d, ks[n])]

(***************************************************************************)
(* Inputs                                                                  *)
(***************************************************************************)

MaxEntries == 3

\* Seq(S) up to length n
SeqsUpTo(S, n) == UNION { [1..m -> S] : m \in 0..n }

\* One registration entry as WBPP prints it: [true, "<path>"] or [false, "<path>"];
\* flag "none" is a quoted string on a line of its own, with no marker.
Render(e) ==
    (IF e.flag = "true" THEN TrueMarker \o e.gap
     ELSE IF e.flag = "false" THEN <<"[", "f", "a", "l", "s", "e", ",">> \o e.gap
     ELSE <<>>)
        \o <<"\"">> \o e.path \o <<"\"">>
        \o (IF e.flag = "none" THEN <<>> ELSE <<"]">>) \o <<"\n">>

RECURSIVE RenderAll(_)
RenderAll(es) == IF es = <<>> THEN <<>> ELSE Render(es[1]) \o RenderAll(Tail(es))

Hdr(t, f, e, d, g, b) ==
    [type |-> t, filter |-> f, exposure |-> e, date |-> d, gain |-> g, binning |-> b]

File(h) == [exists |-> TRUE, io |-> "ok", hdr |-> h]

NoHdr == Hdr(NoMatch, NoMatch, NoMatch, NoMatch, NoMatch, NoMatch)

\* os.path.exists(file_path) is False
MissingFile == [exists |-> FALSE, io |-> "ok", hdr |-> NoHdr]

\* open() or read() raises OSError
BrokenFile == [exists |-> TRUE, io |-> "error", hdr |-> NoHdr]

\* the file at path p
FileAt(p) == IF p \in DOMAIN fs THEN fs[p] ELSE MissingFile

Night1 == <<"0", "5", "-", "0", "1", "T", "2", "2">>

Night1b == <<"0", "5", "-", "0", "1", "T", "2", "3">>

Night2 == <<"0", "5", "-", "0", "2", "T", "0", "1">>

LightPadded == <<"L", "I", "G", "H", "T", " ", " ">>

LightFrame == <<"L", "i", "g", "h", "t", " ", "F", "r", "a", "m", "e">>

\* The files of the scan: two frames of the same group written in the two header
\* dialects, a frame with no filter keyword, an H-alpha frame, and a fifth file
\* that varies.
PathR == <<"r">>

PathRed == <<"r", "e", "d">>

PathNoFilter == <<"n">>

PathHa == <<"h">>

PathX == <<"x">>

Paths == {PathR, PathRed, PathNoFilter, PathHa, PathX}

FileR ==
    File(Hdr(FitsQuoted(LightPadded), FitsQuoted(<<"R">>), FitsBare(<<"1", "2", "0", ".", "0">>),
             FitsQuoted(Night1), FitsBare(<<"1", "0", "0">>), FitsBare(<<"1">>)))

FileRed ==
    File(Hdr(XisfMatch(LightFrame), XisfMatch(<<"R", "e", "d">>), XisfMatch(<<"1", "2", "0">>),
             XisfMatch(Night1b), XisfMatch(<<"1", "0", "0", ".", "9">>), XisfMatch(<<"1">>)))

FileNoFilter ==
    File(Hdr(FitsQuoted(LightPadded), NoMatch, FitsBare(<<"1", "2", "0", ".", "0">>),
             FitsQuoted(Night1), FitsBare(<<"1", "0", "0">>), FitsBare(<<"1">>)))

FileHa ==
    File(Hdr(XisfMatch(LightFrame), XisfMatch(<<"H", "a">>), XisfMatch(<<"3", "0">>),
             XisfMatch(Night1), NoMatch, NoMatch))

FileDark ==
    File(Hdr(FitsQuoted(<<"D", "A", "R", "K">>), FitsQuoted(<<"R">>), FitsBare(<<"3", "0">>),
             FitsQuoted(Night1), NoMatch, NoMatch))

\* a light frame whose EXPTIME card reads "-"
FileBadExposure ==
    File(Hdr(FitsQuoted(LightPadded), FitsQuoted(<<"R">>), FitsBare(<<"-">>),
             FitsQuoted(Night1), NoMatch, NoMatch))

\* a light frame of another night with no filter keyword
FileNight2 ==
    File(Hdr(FitsQuoted(LightPadded), NoMatch, FitsBare(<<"3", "0">>),
             FitsQuoted(Night2), NoMatch, NoMatch))

FilesX == {MissingFile, BrokenFile, FileDark, FileBadExposure, FileNight2}

FileSystem(x) ==
    (PathR :> FileR) @@ (PathRed :> FileRed) @@ (PathNoFilter :> FileNoFilter)
        @@ (PathHa :> FileHa) @@ (PathX :> x)

ScanEntries ==
    { [flag |-> "true", gap |-> <<" ">>, path |-> p] : p \in Paths }
        \cup { [flag |-> "false", gap |-> <<" ">>, path |-> PathR] }

NoCsv == [opens |-> 0, header |-> FALSE, rows |-> <<>>, complete |-> FALSE, error |-> "none"]

Init ==
    /\ log_status \in {"missing", "unreadable", "ok"}
    /\ entries \in (IF log_status = "ok" THEN SeqsUpTo(ScanEntries, MaxEntries) ELSE {<<>>})
    /\ content = RenderAll(entries)
    /\ fs \in (IF log_status = "ok" THEN { FileSystem(x) : x \in FilesX }
               ELSE {FileSystem(MissingFile)})
    /\ pc = "start"
    /\ valid_paths = <<>>
    /\ futures = <<>>
    /\ returned = <<>>
    /\ grouped_data = <<>>
    /\ count_processed = 0
    /\ i = 0
    /\ csv = NoCsv
    /\ notes = <<>>

(***************************************************************************)
(* process_log                                                             *)
(***************************************************************************)

\* show_message(title, message, is_error); the text after a fixed prefix (the
\* exception, the counts, the path) is left out
Note(title, message, is_error) == [title |-> title, message |-> message, is_error |-> is_error]

FileNotFoundNote == Note("Error", "File not found.", TRUE)

CouldNotReadNote == Note("Error", "Could not read log:", TRUE)

\* the empty scan reported like a missing log
NoPathsAsNotFound == Note("Error", "File not found.", TRUE)

NoPathsNote == Note("Warning", "No registered file paths found in this log.", TRUE)

SuccessNote == Note("Success", "Processed files. CSV saved to:", FALSE)

WriteFailedNote == Note("Error", "Failed to write CSV:", TRUE)

\* process_log has been called and has not run yet
CanReadLog == pc = "start"

\* lines 206-236: the log is read, the paths are found and one task per path is
\* submitted to the executor
ReadLog ==
    /\ CanReadLog
    /\ \/ /\ log_status = "missing"
          /\ notes' = Append(notes, FileNotFoundNote)
          /\ pc' = "done"
          /\ UNCHANGED <<valid_paths, futures, returned>>
       \/ /\ log_status = "unreadable"
          /\ notes' = Append(notes, CouldNotReadNote)
          /\ pc' = "done"
          /\ UNCHANGED <<valid_paths, futures, returned>>
       \/ /\ log_status = "ok"
          /\ DistinctPaths(FindAll(content)) = <<>>
          /\ notes' = Append(notes, NoPathsNote)
          /\ pc' = "done"
          /\ UNCHANGED <<valid_paths, futures, returned>>
       \/ /\ log_status = "ok"
          /\ DistinctPaths(FindAll(content)) # <<>>
          /\ valid_paths' = DistinctPaths(FindAll(content))
          /\ futures' = [n \in 1..Len(valid_paths') |-> "pending"]
          /\ returned' = [n \in 1..Len(valid_paths') |-> Reject]
          /\ pc' = "scanning"
          /\ UNCHANGED notes
    /\ UNCHANGED <<log_status, entries, content, fs, grouped_data, count_processed, i, csv>>

\* task n was submitted and has not run
CanWork(n) == pc = "scanning" /\ futures[n] = "pending"

\* a pool thread runs task n: process_single_file(valid_paths[n]), lines 147-203.
\* The call touches nothing the other threads touch, so it is one step; the pool's
\* max_workers only bounds how many calls overlap.
Work(n) ==
    /\ CanWork(n)
    /\ returned' = [returned EXCEPT ![n] = process_single_file(FileAt(valid_paths[n]))]
    /\ futures' = [futures EXCEPT ![n] = "finished"]
    /\ UNCHANGED <<log_status, entries, content, fs, pc, valid_paths, grouped_data,
                   count_processed, i, csv, notes>>

\* task n is done and as_completed has not yielded it
CanCollect(n) == pc = "scanning" /\ futures[n] = "finished"

\* lines 238-247: as_completed yields a finished future and the main thread folds
\* its result; an exception stored in the future is raised again by result() and
\* leaves process_log
Collect(n) ==
    /\ CanCollect(n)
    /\ futures' = [futures EXCEPT ![n] = "collected"]
    /\ IF returned[n].exc
       THEN /\ pc' = "crashed"
            /\ UNCHANGED <<grouped_data, count_processed, i>>
       ELSE /\ pc' = pc
            /\ i' = i + 1
            /\ IF returned[n].rec
               THEN /\ grouped_data' = Increment(grouped_data, returned[n].key)
                    /\ count_processed' = count_processed + 1
               ELSE UNCHANGED <<grouped_data, count_processed>>
    /\ UNCHANGED <<log_status, entries, content, fs, valid_paths, returned, csv, notes>>

\* the loop left at the first result
FirstCollected == \E n \in 1..Len(futures) : futures[n] = "collected"

\* as_completed is exhausted and the executor's with block is left
ScanOver == \A n \in 1..Len(futures) : futures[n] = "collected"

CanWriteCsv == pc = "scanning" /\ ScanOver

\* lines 249-276: the CSV is written and the outcome is reported
WriteCsv ==
    /\ CanWriteCsv
    /\ \/ \* open(output_csv, 'w') raises OSError
          /\ csv' = [csv EXCEPT !.opens = @ + 1, !.error = "OSError"]
          /\ notes' = Append(notes, WriteFailedNote)
       \/ \* sorted() raises TypeError after the header row
          /\ SortRaises(Keys(grouped_data))
          /\ csv' = [opens |-> csv.opens + 1, header |-> TRUE, rows |-> <<>>,
                     complete |-> FALSE, error |-> "TypeError"]
          /\ notes' = Append(notes, WriteFailedNote)
       \/ \* a write raises OSError after some of the rows
          /\ ~SortRaises(Keys(grouped_data))
          /\ \E k \in 0..Len(grouped_data) :
                csv' = [opens |-> csv.opens + 1, header |-> TRUE,
                        rows |-> SubSeq(Rows(grouped_data), 1, k),
                        complete |-> FALSE, error |-> "OSError"]
          /\ notes' = Append(notes, WriteFailedNote)
       \/ /\ ~SortRaises(Keys(grouped_data))
          /\ csv' = [opens |-> csv.opens + 1, header |-> TRUE, rows |-> Rows(grouped_data),
                     complete |-> TRUE, error |-> "none"]
          /\ notes' = Append(notes, SuccessNote)
    /\ pc' = "done"
    /\ UNCHANGED <<log_status, entries, content, fs, valid_paths, futures, returned,
                   grouped_data, count_processed, i>>

Next ==
    \/ ReadLog
    \/ \E n \in 1..Len(futures) : Work(n)
    \/ \E n \in 1..Len(futures) : Collect(n)
    \/ WriteCsv

Spec == Init /\ [][Next]_vars

(***************************************************************************)
(* process_single_file on its own: one submitted task, over every          *)
(* combination of header fields below                                      *)
(***************************************************************************)

TypeMatches ==
    { NoMatch, FitsQuoted(<<>>), XisfMatch(<<"'", "'">>), FitsBare(<<"1">>),
      FitsQuoted(LightPadded), XisfMatch(LightFrame), XisfMatch(<<"l", "i", "g", "h", "t">>),
      XisfMatch(<<"'", "L", "I", "G", "H", "T", "'">>),
      FitsQuoted(<<"L", "I", "G", "H">>), FitsQuoted(<<"B", "I", "A", "S">>),
      FitsQuoted(<<"D", "A", "R", "K">>), XisfMatch(<<"F", "l", "a", "t">>) }

FilterMatches ==
    { NoMatch, FitsQuoted(<<"R">>), FitsQuoted(<<"L">>), FitsQuoted(<<"G">>), FitsQuoted(<<"B">>),
      FitsQuoted(<<"H">>), FitsQuoted(<<"O">>), FitsQuoted(<<"S">>), XisfMatch(<<"H", "a">>),
      XisfMatch(<<"R", "e", "d">>), FitsQuoted(<<"r">>), FitsBare(<<"2", "8", "9", "4", "3">>),
      XisfMatch(<<"C", "L", "S">>), FitsQuoted(<<"O", "3", " ">>) }

ExposureMatches ==
    { NoMatch, FitsQuoted(<<>>), FitsBare(<<"3", "0">>), FitsBare(<<"1", "2", "0", ".", "0">>),
      FitsQuoted(<<" ", "0", ".", "5", " ">>), FitsBare(<<"-">>), FitsBare(<<"1", ".", "2", ".", "3">>),
      XisfMatch(<<"N", "A">>) }

GainMatches ==
    { NoMatch, FitsBare(<<"1", "0", "0">>), XisfMatch(<<"1", "0", "0", ".", "9">>),
      FitsBare(<<"-", "0", ".", "5">>), FitsBare(<<".">>), XisfMatch(<<"h", "i", "g", "h">>) }

DateMatches == { NoMatch, FitsQuoted(Night1), XisfMatch(<<"0", "5", "-", "0", "1">>) }

BinningMatches == { NoMatch, FitsBare(<<"2">>) }

Headers ==
    { Hdr(t, f, e, d, g, b) : t \in TypeMatches, f \in FilterMatches, e \in ExposureMatches,
                              d \in DateMatches, g \in GainMatches, b \in BinningMatches }

ClassifyFiles == {MissingFile, BrokenFile} \cup { File(h) : h \in Headers }

InitClassify ==
    /\ log_status = "ok"
    /\ entries = << [flag |-> "true", gap |-> <<" ">>, path |-> PathX] >>
    /\ content = RenderAll(entries)
    /\ fs \in { PathX :> f : f \in ClassifyFiles }
    /\ pc = "scanning"
    /\ valid_paths = DistinctPaths(FindAll(content))
    /\ futures = [n \in 1..Len(valid_paths) |-> "pending"]
    /\ returned = [n \in 1..Len(valid_paths) |-> Reject]
    /\ grouped_data = <<>>
    /\ count_processed = 0
    /\ i = 0
    /\ csv = NoCsv
    /\ notes = <<>>

NextClassify ==
    \/ \E n \in 1..Len(futures) : Work(n)
    \/ \E n \in 1..Len(futures) : Collect(n)

SpecClassify == InitClassify /\ [][NextClassify]_vars

(***************************************************************************)
(* The path discovery on its own, over logs of every mix of entries        *)
(***************************************************************************)

DiscoverEntries ==
    { [flag |-> f, gap |-> g, path |-> p] :
        f \in {"true", "false", "none"}, g \in {<<>>, <<" ">>, <<"\n", " ">>},
        p \in {PathR, PathRed} }

InitDiscover ==
    /\ log_status \in {"missing", "unreadable", "ok"}
    /\ entries \in (IF log_status = "ok" THEN SeqsUpTo(DiscoverEntries, MaxEntries) ELSE {<<>>})
    /\ content = RenderAll(entries)
    /\ fs = FileSystem(MissingFile)
    /\ pc = "start"
    /\ valid_paths = <<>>
    /\ futures = <<>>
    /\ returned = <<>>
    /\ grouped_data = <<>>
    /\ count_processed = 0
    /\ i = 0
    /\ csv = NoCsv
    /\ notes = <<>>

SpecDiscover == InitDiscover /\ [][ReadLog]_vars

(***************************************************************************)
(* Properties                                                              *)
(***************************************************************************)

Tasks == 1..Len(futures)

\* the file task n was submitted for
TaskFile(n) == FileAt(valid_paths[n])

\* The value captured for a field contains the letters L I G H T in a row, in
\* either case.
LightLetters == << {"L", "l"}, {"I", "i"}, {"G", "g"}, {"H", "h"}, {"T", "t"} >>

HasLightValue(m) ==
    /\ m.found
    /\ \E g \in Range(m.groups) :
          /\ g.some
          /\ \E n \in 0..(Len(g.s) - 5) : \A j \in 1..5 : g.s[n + j] \in LightLetters[j]

\* C1: process_single_file returns a record only for a file whose type field
\* holds a value that contains LIGHT (in any case); a file with no type field,
\* an empty one or another type (BIAS, DARK, FLAT) is rejected, so every key of
\* the counter map was returned for a LIGHT-typed file.
C1_OnlyLightFramesCounted ==
    /\ \A n \in Tasks :
          futures[n] # "pending" /\ returned[n].rec
              => TaskFile(n).exists /\ HasLightValue(TaskFile(n).hdr.type)
    /\ \A m \in 1..Len(grouped_data) :
          \E n \in Tasks : /\ HasLightValue(TaskFile(n).hdr.type)
                           /\ returned[n] = Record(grouped_data[m].key)

C1_Witness ==
    \E n \in Tasks :
        /\ futures[n] = "collected"
        /\ TaskFile(n).hdr.type = XisfMatch(<<"l", "i", "g", "h", "t">>)
        /\ returned[n].rec
        /\ Len(grouped_data) = 1

RECURSIVE SumCounts(_)
SumCounts(d) == IF d = <<>> THEN 0 ELSE d[1].n + SumCounts(Tail(d))

Collected == { n \in Tasks : futures[n] = "collected" }

\* C2: whatever the order in which the tasks complete, the counter map holds one
\* increment per record collected: the counts add up to count_processed and to
\* the number of collected tasks that returned a record, each key appears once,
\* with the number of collected tasks that returned it, and when the scan is over
\* the total is the number of paths whose classification gives a record.
C2_OneIncrementPerRecord ==
    /\ SumCounts(grouped_data) = count_processed
    /\ count_processed = Cardinality({ n \in Collected : returned[n].rec })
    /\ \A m \in 1..Len(grouped_data) :
          /\ grouped_data[m].n =
                Cardinality({ n \in Collected : returned[n] = Record(grouped_data[m].key) })
          /\ \A k \in 1..Len(grouped_data) : grouped_data[k].key = grouped_data[m].key => k = m
    /\ pc = "done" /\ valid_paths # <<>>
          => count_processed =
                Cardinality({ n \in Tasks : process_single_file(TaskFile(n)).rec })

C2_Witness ==
    /\ pc = "done"
    /\ Len(grouped_data) = 1
    /\ grouped_data[1].n = 2
    /\ Len(valid_paths) = 3

\* the rows are in strictly ascending order of their keys
RowKey(r) == << r.date, r.filter, r.duration, r.binning, r.gain >>

Ascending(rows) ==
    \A n \in 1..(Len(rows) - 1) : KeyLess(RowKey(rows[n]), RowKey(rows[n + 1]))

\* C3: whenever a scan has produced at least one record (resolved numeric filter
\* ids and raw filter tokens in any mix) and the file can be written, the table has
\* one row per distinct key, in ascending order of the key, and the run ends with
\* the success notification.
C3_SortedTableAndSuccess ==
    pc = "done" /\ grouped_data # <<>> /\ csv.error # "OSError"
        => /\ Len(csv.rows) = Len(grouped_data)
           /\ { RowKey(csv.rows[n]) : n \in 1..Len(csv.rows) } = Range(Keys(grouped_data))
           /\ Ascending(csv.rows)
           /\ notes = << SuccessNote >>

C4_Safe ==
    /\ pc # "crashed"
    /\ \A n \in Tasks : ~returned[n].exc
    /\ i = Cardinality(Collected)
    /\ pc = "done" /\ valid_paths # <<>> => i = Len(valid_paths) /\ Collected = Tasks

\* some step of process_log or of a pool thread can be taken
CanStep ==
    \/ CanReadLog
    \/ \E n \in Tasks : CanWork(n)
    \/ \E n \in Tasks : CanCollect(n)
    \/ CanWriteCsv

\* what is left to do: it is bounded, and every step lowers it
Remaining ==
    IF pc = "start" THEN 3 * (Len(entries) + 1)
    ELSE IF pc = "scanning"
         THEN 1 + 2 * Cardinality({ n \in Tasks : futures[n] = "pending" })
                + Cardinality({ n \in Tasks : futures[n] = "finished" })
    ELSE 0

\* C4: no failure of a file reaches the main thread: no task ends with an
\* exception and process_log never crashes; until the run is done a step can
\* always be taken and every step brings the end nearer, so the scan terminates;
\* a run with candidates ends with every task collected exactly once.
C4_FailuresStayLocal ==
    /\ [](C4_Safe /\ (pc # "done" => CanStep))
    /\ [][Remaining' < Remaining]_vars

C4_Witness ==
    /\ pc = "done"
    /\ Len(valid_paths) = 3
    /\ i = 3
    /\ count_processed = 2
    /\ \E n \in Tasks : TaskFile(n) = BrokenFile

\* the value of a field is absent, empty, or not a number
NoNumber(m) == ~Truthy(extract_val(m)) \/ ~ParseFloat(extract_val(m).s).ok

\* C5: a LIGHT-typed file that can be read always gives a record; its exposure is
\* "0" when the exposure field is absent or not a number, its gain is "0" when
\* the gain field is absent or not a number, and an exposure of "30" gives "30.00".
C5_DefaultsForBadNumbers ==
    \A n \in Tasks :
        /\ futures[n] # "pending"
        /\ TaskFile(n).exists
        /\ TaskFile(n).io = "ok"
        /\ HasLightValue(TaskFile(n).hdr.type)
        => /\ returned[n].rec
           /\ NoNumber(TaskFile(n).hdr.exposure) => returned[n].key[3] = <<"0">>
           /\ NoNumber(TaskFile(n).hdr.gain) => returned[n].key[5] = <<"0">>
           /\ TaskFile(n).hdr.exposure = FitsBare(<<"3", "0">>)
                 => returned[n].key[3] = <<"3", "0", ".", "0", "0">>

\* the counter map as a set of (key, count) pairs
AsMapping(d) == Range(d)

\* the counter map the results give when they arrive in submission order
RECURSIVE FoldInOrder(_)
FoldInOrder(n) ==
    IF n = 0 THEN <<>>
    ELSE LET r == process_single_file(TaskFile(n))
         IN  IF r.rec THEN Increment(FoldInOrder(n - 1), r.key) ELSE FoldInOrder(n - 1)

\* C6: the outcome does not depend on the completion order: in whatever order the
\* results were collected, the run ends with the key-to-count mapping, and writes
\* the rows in the order, that the submission order would give.
C6_OrderIndependent ==
    pc = "done" /\ valid_paths # <<>>
        => LET ref == FoldInOrder(Len(valid_paths))
           IN  /\ AsMapping(grouped_data) = AsMapping(ref)
               /\ csv.complete => csv.rows = Rows(ref)
               /\ csv.error = "TypeError" <=> SortRaises(Keys(ref)) /\ csv.header /\ csv.rows = <<>>

C6_Witness ==
    /\ pc = "done"
    /\ csv.complete
    /\ Len(csv.rows) = 2
    /\ Keys(grouped_data) # Keys(FoldInOrder(Len(valid_paths)))
    /\ Keys(grouped_data) # Sorted(Keys(grouped_data))

\* C7: the candidates are exactly the paths of the log's [true, "..."] entries,
\* each once however often it is listed, with one task each; a [false, "..."]
\* entry and a quoted string without marker give none.
C7_DistinctTruePaths ==
    pc # "start" /\ log_status = "ok"
        => /\ Range(valid_paths) = { entries[n].path : n \in { k \in 1..Len(entries) : entries[k].flag = "true" } }
           /\ Cardinality(Range(valid_paths)) = Len(valid_paths)
           /\ Len(futures) = Len(valid_paths)

C7_Witness ==
    /\ pc = "scanning"
    /\ Len(entries) = 3
    /\ entries[1].flag = "true" /\ entries[1].path = PathR
    /\ entries[2].flag = "false" /\ entries[2].path = PathRed
    /\ entries[3].flag = "true" /\ entries[3].path = PathR
    /\ valid_paths = << PathR >>

NoTrueEntry == \A n \in 1..Len(entries) : entries[n].flag # "true"

\* C8: a missing log, an unreadable log and a log without path marker each end
\* the run after one notification, with no task submitted and no output file;
\* the three messages differ and the last one carries the title "Warning".
C8_EarlyExits ==
    pc = "done" /\ (log_status # "ok" \/ NoTrueEntry)
        => /\ Len(notes) = 1
           /\ futures = <<>>
           /\ valid_paths = <<>>
           /\ csv = NoCsv
           /\ log_status = "missing" => notes[1] = Note("Error", "File not found.", TRUE)
           /\ log_status = "unreadable" => notes[1] = Note("Error", "Could not read log:", TRUE)
           /\ log_status = "ok" =>
                 /\ notes[1].title = "Warning"
                 /\ notes[1].message \notin {"File not found.", "Could not read log:"}

C8_Witness ==
    /\ pc = "done"
    /\ log_status = "ok"
    /\ Len(entries) = 2
    /\ NoTrueEntry
    /\ notes = << NoPathsNote >>

\* The filter table as the claim lists it.
TableId(c) ==
    CASE c = "R" -> 28943 [] c = "L" -> 25576 [] c = "G" -> 28944 [] c = "B" -> 28945
      [] c = "H" -> 4410 [] c = "O" -> 4415 [] c = "S" -> 4420

TableKeys == {"R", "L", "G", "B", "H", "O", "S"}

\* the raw filter token of a header
RawToken(h) == raw_filter_of(extract_val(h.filter))

\* C9: the filter id of a record is the table identifier of the raw token when
\* the token is one of the 7 keys, else that of its first character when that is a
\* key, else the raw token itself: "R" gives 28943, "Ha" and "H" give 4410, and
\* "28943" stays "28943".
C9_FilterNormalisation ==
    \A n \in Tasks :
        futures[n] # "pending" /\ returned[n].rec
        => LET raw == RawToken(TaskFile(n).hdr)
               id  == returned[n].key[2]
           IN  /\ Len(raw) = 1 /\ raw[1] \in TableKeys => id = IntId(TableId(raw[1]))
               /\ Len(raw) > 1 /\ raw[1] \in TableKeys => id = IntId(TableId(raw[1]))
               /\ raw[1] \notin TableKeys => id = StrId(raw)
               /\ raw = <<"R">> => id = IntId(28943)
               /\ raw \in { <<"H", "a">>, <<"H">> } => id = IntId(4410)
               /\ raw = <<"2", "8", "9", "4", "3">> => id = StrId(raw)

C9_Witness ==
    \E n \in Tasks :
        /\ futures[n] = "finished"
        /\ RawToken(TaskFile(n).hdr) = <<"H", "a">>
        /\ returned[n].rec
        /\ returned[n].key[2] = IntId(4410)

\* C10: the output file is opened only once every task has completed and been
\* folded, at most once per run, and a run with candidates ends with a single
\* notification: "Success" when the table was written, an error otherwise.
C10_WriteAfterScanOnce ==
    /\ csv.opens <= 1
    /\ csv.opens > 0
          => /\ \A n \in Tasks : futures[n] = "collected"
             /\ i = Len(valid_paths)
             /\ count_processed = Cardinality({ n \in Tasks : process_single_file(TaskFile(n)).rec })
    /\ pc = "done" /\ valid_paths # <<>>
          => /\ csv.opens = 1
             /\ Len(notes) = 1
             /\ csv.complete => notes[1].title = "Success" /\ ~notes[1].is_error
             /\ ~csv.complete => notes[1].title = "Error" /\ notes[1].is_error

C10_Witness ==
    /\ pc = "done"
    /\ Len(valid_paths) = 3
    /\ csv.complete
    /\ Len(csv.rows) = 2
    /\ notes = << SuccessNote >>

====
